---- MODULE Spec2Model ----
(***************************************************************************)
(* A model of the QQP acquisition pipeline: src/src/download.py (link      *)
(* resolution, existence check, concurrent download with integrity         *)
(* verification and recursive retry) and src/src/extract.py (concurrent    *)
(* extraction, region filter with concurrent appends, cleanup, merge).     *)
(* The directory tree under RAW is the only persistent state.              *)
(***************************************************************************)
EXTENDS Integers, Sequences, FiniteSets, TLC

(***************************************************************************)
(* Bounds of the model.                                                    *)
(***************************************************************************)
\* run_downloader / run_extraction invocations explored one after the other
MaxRuns == 2
\* the retry bound N that the specification asks of download_file ("e.g. 3")
MaxRetries == 3
\* rows of a chunk handed to the region filter on its own
MaxChunkRows == 4
\* depth at which the interpreter stops the recursion of download_file with a
\* RecursionError (a scaled-down stand-in; the source itself sets no bound)
RecursionLimit == MaxRetries + 1

(***************************************************************************)
(* Program constants.                                                      *)
(***************************************************************************)
\* download.py:145  ThreadPoolExecutor(max_workers=3)
MaxWorkers == 3

(***************************************************************************)
(* Names.  A file name is a sequence of characters, so that the substring  *)
(* and suffix tests of the code are computed rather than assumed.          *)
(***************************************************************************)
DigitChars == <<"0", "1", "2", "3", "4", "5", "6", "7", "8", "9">>

\* str(y) of a four digit year
YearStr(y) ==
    << DigitChars[((y \div 1000) % 10) + 1], DigitChars[((y \div 100) % 10) + 1],
       DigitChars[((y \div 10) % 10) + 1], DigitChars[(y % 10) + 1] >>

\* the years the remote listing offers
LinkedYears == 2019..2022

\* "QQP_<year>.rar": the archive of a year (extract.py find_rar_files)
ArchiveName(y) == <<"Q", "Q", "P", "_">> \o YearStr(y) \o <<".", "r", "a", "r">>

\* URL_DOWNLOAD_ROOT + "/" + href, as its "/"-separated segments
UrlOf(y) == << <<"d", "a", "t", "o", "s", "_", "a", "b", "i", "e", "r", "t", "o", "s">>,
               <<>>, ArchiveName(y) >>

\* get_file_links: the year -> url mapping of a 200 response, {} otherwise
get_file_links(ok) ==
    IF ok THEN [y \in LinkedYears |-> UrlOf(y)] ELSE [y \in {} |-> <<>>]

\* sub in s, for sequences of characters
Contains(sub, s) ==
    \E i \in 0..(Len(s) - Len(sub)) :
        \A k \in 1..Len(sub) : s[i + k] = sub[k]

\* pathlib's suffix: from the last "." on, "" when there is none or it leads
Suffix(name) ==
    LET dots == {i \in 2..Len(name) : name[i] = "."}
    IN  IF dots = {} THEN <<>>
        ELSE LET d == CHOOSE i \in dots : \A j \in dots : j <= i
             IN  SubSeq(name, d, Len(name))

ArchiveSuffixes ==
    { <<".", "r", "a", "r">>, <<".", "R", "A", "R">>,
      <<".", "z", "i", "p">>, <<".", "Z", "I", "P">> }

\* the server sends no content-disposition header for these links
ContentDisposition(url) == <<>>

\* download_file's file name: the disposition file name, else the last segment
ResolveFilename(url) ==
    IF ContentDisposition(url) # <<>> THEN ContentDisposition(url) ELSE url[Len(url)]

\* the files RAW may hold
RawNames == {ArchiveName(y) : y \in LinkedYears}

YearOfUrl(url) == CHOOSE y \in LinkedYears : UrlOf(y) = url

VARIABLES
    raw,        \* RAW: file name -> "absent" | "invalid" | "valid"
    metadata,   \* RAW/metadata_download: the file names with a record
    dphase,     \* run_downloader: "idle" | "pool" | "done" | "crashed"
    druns,      \* run_downloader invocations so far
    existing,   \* the second list check_existing returned to the current run
    tasks,      \* the download_file calls submitted to the pool of the run
    dfReturn,   \* what download_files handed back to run_downloader
    xdir,       \* RAW/QQP_<year>: [exists, files], the extracted directory
    out,        \* RAW/QQP_<year>_son: [dir, file, lines] of QQP_<year>_SON.csv
    merged,     \* RAW/qqp_<years>_sonora.csv: [exists, years, rows, result]
    xphase,     \* run_extraction: "idle" | "extracting" | "cleaning" | "merging" | "done"
    xruns,      \* run_extraction invocations so far
    xargs,      \* [years, clean, merge_all, rars] of the current run_extraction
    xtask,      \* year -> state of its process_extraction call
    ftask,      \* year -> file -> state of its filter_sonora_and_save call
    ctask,      \* year -> state of its cleanup_year call
    prev,       \* year -> [ok, rows]: how the previous run left the year
    args,       \* a single call of a function: its name and arguments
    ret         \* [returned, value]: what that call returned, once it has

dvars == <<metadata, dphase, druns, existing, tasks, dfReturn>>
xvars == <<xdir, out, merged, xphase, xruns, xargs, xtask, ftask, ctask, prev>>
pvars == <<args, ret>>
vars == <<raw, dvars, xvars, pvars>>

(***************************************************************************)
(* download.py                                                             *)
(***************************************************************************)
\* (mutant) check_existing that looks at every file name, archive or not
check_existing_any_file(years, dir) ==
    LET existing_files == {n \in DOMAIN dir : dir[n] # "absent"}
        present(y) == \E n \in existing_files : Contains(YearStr(y), n)
    IN  [missing |-> SelectSeq(years, LAMBDA y : ~present(y)),
         existing |-> SelectSeq(years, LAMBDA y : present(y))]

\* check_existing(years, path): (missing, existing) by file name substring
check_existing(years, dir) ==
    LET existing_files == {n \in DOMAIN dir : dir[n] # "absent" /\ Suffix(n) \in ArchiveSuffixes}
        present(y) == \E n \in existing_files : Contains(YearStr(y), n)
    IN  [missing |-> SelectSeq(years, LAMBDA y : ~present(y)),
         existing |-> SelectSeq(years, LAMBDA y : present(y))]

\* is_valid_rar(file_path): the archive opens and tests clean
is_valid_rar(name) == raw[name] = "valid"

\* (mutant) run_downloader that downloads every selected year
YearsToDownloadAll(selected, dir) == selected

\* the years run_downloader hands on to download_files
YearsToDownload(selected, dir) == check_existing(selected, dir).missing

\* download_files returns nothing: the iterator of executor.map is dropped
DownloadFilesResult(ts) == "None"

\* the download_file calls a worker is executing
InProgress == {i \in 1..Len(tasks) : tasks[i].pc = "writing"}

\* (mutant) a pool that starts a thread for every submitted call
WorkerIdleUnbounded == TRUE

\* a worker of the pool is free
WorkerIdle == Cardinality(InProgress) < MaxWorkers

\* the pool hands out the submitted calls in order
NextQueued(i) ==
    /\ tasks[i].pc = "queued"
    /\ \A j \in 1..(i - 1) : tasks[j].pc # "queued"

YearsInputs ==
    { <<>>, <<2019>>, <<2021, 2020>>, <<2018, 2022>>, <<2019, 2020, 2021, 2022>> }

DInit ==
    /\ metadata = {}
    /\ dphase = "idle"
    /\ druns = 0
    /\ existing = <<>>
    /\ tasks = <<>>
    /\ dfReturn = "unset"

\* run_downloader(years) up to the submission of the calls to the pool
RunDownloader(years, ok) ==
    /\ dphase \in {"idle", "done", "crashed"}
    /\ druns < MaxRuns
    /\ druns' = druns + 1
    /\ dfReturn' = "unset"
    /\ UNCHANGED <<raw, metadata, xvars, pvars>>
    /\ IF years = <<>>
       THEN \* selected_years is unbound: UnboundLocalError
            /\ dphase' = "crashed"
            /\ existing' = <<>>
            /\ tasks' = <<>>
       ELSE LET links_dic == get_file_links(ok)
                selected_years == SelectSeq(years, LAMBDA y : y \in DOMAIN links_dic)
                years_to_download == YearsToDownload(selected_years, raw)
            IN  /\ dphase' = "pool"
                /\ existing' = check_existing(selected_years, raw).existing
                /\ tasks' = [i \in 1..Len(years_to_download) |->
                               [url |-> links_dic[years_to_download[i]],
                                pc |-> "queued", depth |-> 0, exc |-> "none"]]

\* a worker takes the next call: requests.get, then open(file_path, "wb")
StartDownload(i, connected) ==
    /\ dphase = "pool"
    /\ NextQueued(i)
    /\ WorkerIdle
    /\ IF connected
       THEN /\ raw' = [raw EXCEPT ![ResolveFilename(tasks[i].url)] = "invalid"]
            /\ tasks' = [tasks EXCEPT ![i].pc = "writing", ![i].depth = 1]
       ELSE /\ raw' = raw
            /\ tasks' = [tasks EXCEPT ![i].pc = "failed", ![i].exc = "ConnectionError"]
    /\ UNCHANGED <<metadata, dphase, druns, existing, dfReturn, xvars, pvars>>

\* the chunk loop breaks midway: the exception leaves download_file, and the
\* part already written stays on disk
TransferBreaks(i) ==
    /\ dphase = "pool"
    /\ tasks[i].pc = "writing"
    /\ tasks' = [tasks EXCEPT ![i].pc = "failed", ![i].depth = 0,
                              ![i].exc = "ConnectionError"]
    /\ UNCHANGED <<raw, metadata, dphase, druns, existing, dfReturn, xvars, pvars>>

\* the body arrives whole and sound: the file verifies, then
\* generate_download_metadata, then return file_path
TransferSound(i, metaOk) ==
    /\ dphase = "pool"
    /\ tasks[i].pc = "writing"
    /\ raw' = [raw EXCEPT ![ResolveFilename(tasks[i].url)] = "valid"]
    /\ IF metaOk
       THEN /\ metadata' = metadata \cup {ResolveFilename(tasks[i].url)}
            /\ tasks' = [tasks EXCEPT ![i].pc = "done", ![i].depth = 0]
       ELSE /\ metadata' = metadata
            /\ tasks' = [tasks EXCEPT ![i].pc = "failed", ![i].depth = 0,
                                      ![i].exc = "OSError"]
    /\ UNCHANGED <<dphase, druns, existing, dfReturn, xvars, pvars>>

\* the body arrives whole and corrupt: is_valid_rar fails, the file is
\* unlinked and download_file calls itself (requests.get, open) one frame deeper
TransferCorrupt(i, connected) ==
    /\ dphase = "pool"
    /\ tasks[i].pc = "writing"
    /\ IF tasks[i].depth >= RecursionLimit
       THEN /\ raw' = [raw EXCEPT ![ResolveFilename(tasks[i].url)] = "absent"]
            /\ tasks' = [tasks EXCEPT ![i].pc = "failed", ![i].depth = 0,
                                      ![i].exc = "RecursionError"]
       ELSE IF connected
       THEN /\ raw' = [raw EXCEPT ![ResolveFilename(tasks[i].url)] = "invalid"]
            /\ tasks' = [tasks EXCEPT ![i].depth = @ + 1]
       ELSE /\ raw' = [raw EXCEPT ![ResolveFilename(tasks[i].url)] = "absent"]
            /\ tasks' = [tasks EXCEPT ![i].pc = "failed", ![i].depth = 0,
                                      ![i].exc = "ConnectionError"]
    /\ UNCHANGED <<metadata, dphase, druns, existing, dfReturn, xvars, pvars>>

\* the with block of download_files ends once every call has ended
DownloadFilesReturn ==
    /\ dphase = "pool"
    /\ \A i \in 1..Len(tasks) : tasks[i].pc \in {"done", "failed"}
    /\ dphase' = "done"
    /\ dfReturn' = DownloadFilesResult(tasks)
    /\ UNCHANGED <<raw, metadata, druns, existing, tasks, xvars, pvars>>

DNext ==
    \/ \E years \in YearsInputs, ok \in BOOLEAN : RunDownloader(years, ok)
    \/ \E i \in 1..Len(tasks), connected \in BOOLEAN : StartDownload(i, connected)
    \/ \E i \in 1..Len(tasks) : TransferBreaks(i)
    \/ \E i \in 1..Len(tasks), metaOk \in BOOLEAN : TransferSound(i, metaOk)
    \/ \E i \in 1..Len(tasks), connected \in BOOLEAN : TransferCorrupt(i, connected)
    \/ DownloadFilesReturn

(***************************************************************************)
(* extract.py                                                              *)
(***************************************************************************)
\* extract.py:189  shoot_parallel_extraction(..., max_workers=4)
ExtractWorkers == 4
\* rows per chunk of the region filter (a scaled-down stand-in for
\* chunksize=100_00 of _csv_chunk_filter_and_append)
ChunkSize == 2

LowerLetters == <<"a", "b", "c", "d", "e", "f", "g", "h", "i", "j", "k", "l", "m",
                  "n", "o", "p", "q", "r", "s", "t", "u", "v", "w", "x", "y", "z">>
UpperLetters == <<"A", "B", "C", "D", "E", "F", "G", "H", "I", "J", "K", "L", "M",
                  "N", "O", "P", "Q", "R", "S", "T", "U", "V", "W", "X", "Y", "Z">>

\* str.lower() and str.upper(), character by character
LowerChar(c) ==
    IF \E i \in 1..26 : UpperLetters[i] = c
    THEN LowerLetters[CHOOSE i \in 1..26 : UpperLetters[i] = c] ELSE c
UpperChar(c) ==
    IF \E i \in 1..26 : LowerLetters[i] = c
    THEN UpperLetters[CHOOSE i \in 1..26 : LowerLetters[i] = c] ELSE c
Lower(str) == [i \in 1..Len(str) |-> LowerChar(str[i])]
Upper(str) == [i \in 1..Len(str) |-> UpperChar(str[i])]

Range(seq) == {seq[i] : i \in 1..Len(seq)}

\* the members of the archives on the remote, by year
FileA == <<"a", ".", "c", "s", "v">>
FileB == <<"b", ".", "t", "x", "t">>
FileC == <<"c", ".", "C", "S", "V">>
FileD == <<"d", ".", "t", "x", "t">>
FileE == <<"e", ".", "c", "s", "v">>
ArchiveFiles(y) ==
    CASE y = 2019 -> {FileA, FileB}
      [] y = 2020 -> {FileD, FileE}
      [] y = 2021 -> {FileC}
      [] OTHER -> {}

\* the estado field of each line of a member, as written in the file
Sonora == <<"S", "o", "n", "o", "r", "a">>
sonora == <<"s", "o", "n", "o", "r", "a">>
SONORA == <<"S", "O", "N", "O", "R", "A">>
Jalisco == <<"J", "a", "l", "i", "s", "c", "o">>
FileRows(f) ==
    CASE f = FileA -> <<Sonora, Jalisco>>
      [] f = FileB -> << <<>>, sonora >>
      [] f = FileC -> <<Sonora>>
      [] f = FileD -> <<Sonora>>
      [] f = FileE -> <<Jalisco, Jalisco, SONORA>>

\* members pandas cannot parse: read_csv raises on their first chunk
Malformed(f, k) == f = FileD /\ k = 1

\* pd.read_csv turns an empty field into NaN; fillna('') turns it back
NaN == <<"NaN">>
ReadField(v) == IF v = <<>> THEN NaN ELSE v
FillNa(v) == IF v = NaN THEN <<>> ELSE v

\* (mutant) a mask that compares without str.upper()
MaskCaseSensitive(v) == FillNa(ReadField(v)) = SONORA

\* the mask of _csv_chunk_filter_and_append
Mask(v) == Upper(FillNa(ReadField(v))) = SONORA

NChunks(f) == (Len(FileRows(f)) + ChunkSize - 1) \div ChunkSize
ChunkIndex(f, k) ==
    LET lo == (k - 1) * ChunkSize + 1
        hi == IF k * ChunkSize < Len(FileRows(f)) THEN k * ChunkSize ELSE Len(FileRows(f))
    IN  [i \in 1..(hi - lo + 1) |-> lo + i - 1]

\* chunk.loc[mask]: the labels of index, in their order, whose estado the
\* mask keeps
LocMask(index, estado) == SelectSeq(index, LAMBDA i : Mask(estado[i]))

\* the row numbers of chunk k of f that the filter keeps
Filtered(f, k) == LocMask(ChunkIndex(f, k), FileRows(f))

\* filtered.to_csv(output_file, mode='a', header=True): the header line (row
\* 0), then the kept rows
ChunkOutput(f, k) ==
    <<[src |-> f, chunk |-> k, row |-> 0]>> \o
    [j \in 1..Len(Filtered(f, k)) |-> [src |-> f, chunk |-> k, row |-> Filtered(f, k)[j]]]

\* the loop of _csv_chunk_filter_and_append from chunk k on, up to its next
\* write: reading a chunk that keeps no row changes nothing
RECURSIVE Advance(_, _)
Advance(f, k) ==
    IF k > NChunks(f) THEN [pc |-> "done", chunk |-> 0, pending |-> <<>>]
    ELSE IF Malformed(f, k) THEN [pc |-> "failed", chunk |-> 0, pending |-> <<>>]
    ELSE IF Filtered(f, k) = <<>> THEN Advance(f, k + 1)
    ELSE [pc |-> "writing", chunk |-> k, pending |-> ChunkOutput(f, k)]

\* (mutant) a process_extraction that unpacks whatever the directory holds
_is_empty_dir_always(y) == TRUE

\* _is_empty_dir(path)
_is_empty_dir(y) == xdir[y].files = {}

\* find_extracted_files(base_path): .csv and .txt in any letter case
find_extracted_files(y) ==
    IF ~xdir[y].exists THEN {}
    ELSE {f \in xdir[y].files :
            Lower(Suffix(f)) \in { <<".", "c", "s", "v">>, <<".", "t", "x", "t">> }}

\* the suffix test of filter_sonora_and_save
SupportedSuffix(f) == Suffix(f) \in { <<".", "c", "s", "v">>, <<".", "t", "x", "t">> }

\* find_rar_files(years, RAW): the years whose QQP_<year>.rar exists
find_rar_files(years) == SelectSeq(years, LAMBDA y : raw[ArchiveName(y)] # "absent")

\* what extract_rar_file makes of the directory: everything from a sound
\* archive; from a damaged one, whatever was unpacked before the error
Extracted(y, partial) ==
    IF raw[ArchiveName(y)] = "valid" THEN ArchiveFiles(y) ELSE partial

\* extract_rar_file returns True
ExtractSucceeds(y) == raw[ArchiveName(y)] = "valid"

\* shoot_parallel_extraction returns True whatever its calls returned
ShootResult(results) == TRUE

\* the data rows among the lines of an output file
DataRows(lines) == SelectSeq(lines, LAMBDA l : l.row > 0)

\* the frames merge_csv_years reads from the files of one QQP_<year>_son, in
\* glob order: pd.read_csv(csv_file, dtype=str) takes the first line as the
\* column names and every further line as a row; a file with no line raises
\* EmptyDataError, which is logged and the file left out
RECURSIVE YearFrames(_)
YearFrames(files) ==
    IF files = <<>> THEN <<>>
    ELSE (IF Head(files) = <<>> THEN <<>> ELSE <<Tail(Head(files))>>)
             \o YearFrames(Tail(files))

\* (mutant) a merge that gives up at the first missing directory
RECURSIVE MergedFramesStopAtMissing(_, _)
MergedFramesStopAtMissing(years, dirs) ==
    IF years = <<>> THEN <<>>
    ELSE IF ~dirs[Head(years)].dir THEN <<>>
    ELSE YearFrames(dirs[Head(years)].files)
             \o MergedFramesStopAtMissing(Tail(years), dirs)

\* merged_dfs of merge_csv_years(years): year by year, a year whose
\* directory is missing skipped
RECURSIVE MergedFrames(_, _)
MergedFrames(years, dirs) ==
    IF years = <<>> THEN <<>>
    ELSE LET y == Head(years)
             rest == MergedFrames(Tail(years), dirs)
         IN  IF ~dirs[y].dir THEN rest ELSE YearFrames(dirs[y].files) \o rest

\* (mutant) a concatenation that puts the later frames first
RECURSIVE ConcatLaterFirst(_)
ConcatLaterFirst(frames) ==
    IF frames = <<>> THEN <<>> ELSE ConcatLaterFirst(Tail(frames)) \o Head(frames)

\* pd.concat(merged_dfs, ignore_index=True)
RECURSIVE Concat(_)
Concat(frames) == IF frames = <<>> THEN <<>> ELSE Head(frames) \o Concat(Tail(frames))

\* merge_csv_years(years, base_path): what it returns and what it leaves at
\* qqp_<years>_sonora.csv, given the year directories and the file as it was
merge_csv_years(years, dirs, file) ==
    LET merged_dfs == MergedFrames(years, dirs)
        touched == IF file.exists THEN file ELSE [exists |-> TRUE, rows |-> <<>>]
    IN  IF merged_dfs = <<>>
        THEN [result |-> "None", file |-> touched]
        ELSE [result |-> "output_file",
              file |-> [exists |-> TRUE, rows |-> Concat(merged_dfs)]]

\* the QQP_<year>_son directories as the filter calls left them
SonDirs ==
    [y \in LinkedYears |->
       [dir |-> out[y].dir,
        files |-> IF out[y].file THEN <<out[y].lines>> ELSE <<>>]]

IdleTask == [pc |-> "none", chunk |-> 0, pending |-> <<>>]
NoArgs == [years |-> <<>>, clean |-> FALSE, merge_all |-> FALSE, rars |-> <<>>]

\* the calls of run_extraction explored
ExtractCalls ==
    { [years |-> <<>>, clean |-> FALSE, merge_all |-> FALSE],
      [years |-> <<2019, 2020, 2021>>, clean |-> FALSE, merge_all |-> FALSE],
      [years |-> <<2019, 2020, 2021>>, clean |-> TRUE, merge_all |-> TRUE],
      [years |-> <<2022, 2020>>, clean |-> TRUE, merge_all |-> FALSE],
      [years |-> <<2021, 2019>>, clean |-> FALSE, merge_all |-> TRUE] }

XInit ==
    /\ xdir = [y \in LinkedYears |-> [exists |-> FALSE, files |-> {}]]
    /\ out = [y \in LinkedYears |-> [dir |-> FALSE, file |-> FALSE, lines |-> <<>>]]
    /\ merged = [exists |-> FALSE, years |-> <<>>, rows |-> <<>>, result |-> "unset"]
    /\ xphase = "idle"
    /\ xruns = 0
    /\ xargs = NoArgs
    /\ xtask = [y \in LinkedYears |-> "none"]
    /\ ftask = [y \in LinkedYears |-> [f \in ArchiveFiles(y) |-> IdleTask]]
    /\ ctask = [y \in LinkedYears |-> "none"]
    /\ prev = [y \in LinkedYears |-> [ok |-> FALSE, rows |-> 0]]

\* run_extraction(years, clean, merge_all) up to the submission of the
\* process_extraction calls
RunExtraction(years, clean, merge_all) ==
    /\ xphase \in {"idle", "done"}
    /\ xruns < MaxRuns
    /\ xruns' = xruns + 1
    /\ xargs' = [years |-> years, clean |-> clean, merge_all |-> merge_all,
                 rars |-> find_rar_files(years)]
    /\ prev' = [y \in LinkedYears |->
                  [ok |-> xtask[y] = "ok", rows |-> Len(DataRows(out[y].lines))]]
    /\ xtask' = [y \in LinkedYears |->
                   IF y \in Range(find_rar_files(years)) THEN "queued" ELSE "none"]
    /\ ftask' = [y \in LinkedYears |-> [f \in ArchiveFiles(y) |-> IdleTask]]
    /\ ctask' = [y \in LinkedYears |-> "none"]
    /\ xphase' = IF find_rar_files(years) = <<>> THEN "done" ELSE "extracting"
    /\ UNCHANGED <<raw, dvars, pvars, xdir, out, merged>>

\* the process_extraction calls a worker is executing
Extracting == {y \in LinkedYears : xtask[y] = "filtering"}

\* process_extraction(year, rar_path) up to the submission of its filter calls
StartExtraction(y, partial) ==
    /\ xphase = "extracting"
    /\ xtask[y] = "queued"
    /\ \A j \in 1..Len(xargs.rars) :
          xargs.rars[j] = y => \A h \in 1..(j - 1) : xtask[xargs.rars[h]] # "queued"
    /\ Cardinality(Extracting) < ExtractWorkers
    /\ IF _is_empty_dir(y)
       THEN /\ xdir' = [xdir EXCEPT ![y] = [exists |-> TRUE, files |-> Extracted(y, partial)]]
            /\ IF ExtractSucceeds(y)
               THEN /\ xtask' = [xtask EXCEPT ![y] = "filtering"]
                    /\ out' = [out EXCEPT ![y].dir = TRUE]
                    /\ ftask' = [ftask EXCEPT ![y] =
                                   [f \in ArchiveFiles(y) |->
                                      IF f \in find_extracted_files(y)'
                                      THEN [IdleTask EXCEPT !.pc = "queued"] ELSE IdleTask]]
               ELSE /\ xtask' = [xtask EXCEPT ![y] = "failed"]
                    /\ UNCHANGED <<out, ftask>>
       ELSE /\ xdir' = [xdir EXCEPT ![y].exists = TRUE]
            /\ xtask' = [xtask EXCEPT ![y] = "filtering"]
            /\ out' = [out EXCEPT ![y].dir = TRUE]
            /\ ftask' = [ftask EXCEPT ![y] =
                           [f \in ArchiveFiles(y) |->
                              IF f \in find_extracted_files(y)'
                              THEN [IdleTask EXCEPT !.pc = "queued"] ELSE IdleTask]]
    /\ UNCHANGED <<raw, dvars, pvars, merged, xphase, xruns, xargs, ctask, prev>>

\* filter_sonora_and_save(input, output_dir, year) up to its first write
FilterStart(y, f) ==
    /\ xtask[y] = "filtering"
    /\ ftask[y][f].pc = "queued"
    /\ out' = [out EXCEPT ![y].file = TRUE]
    /\ ftask' = [ftask EXCEPT ![y][f] =
                   IF SupportedSuffix(f) THEN Advance(f, 1)
                   ELSE [IdleTask EXCEPT !.pc = "skipped"]]
    /\ UNCHANGED <<raw, dvars, pvars, xdir, merged, xphase, xruns, xargs, xtask, ctask, prev>>

\* one write of the buffered handle of to_csv: the next n lines of the chunk
\* reach the end of the output file; after the last one the loop goes on
AppendFlush(y, f, n) ==
    /\ xtask[y] = "filtering"
    /\ ftask[y][f].pc = "writing"
    /\ n \in 1..Len(ftask[y][f].pending)
    /\ out' = [out EXCEPT ![y].lines = @ \o SubSeq(ftask[y][f].pending, 1, n)]
    /\ ftask' = [ftask EXCEPT ![y][f] =
                   IF n = Len(@.pending) THEN Advance(f, @.chunk + 1)
                   ELSE [@ EXCEPT !.pending = SubSeq(@, n + 1, Len(@))]]
    /\ UNCHANGED <<raw, dvars, pvars, xdir, merged, xphase, xruns, xargs, xtask, ctask, prev>>

\* (mutant) a process_extraction that a failed filter call ends at once,
\* whatever its other filter calls are doing
ProcessExtractionReturnsOnFailure(y) ==
    /\ xtask[y] = "filtering"
    /\ \/ \A f \in ArchiveFiles(y) : ftask[y][f].pc \in {"none", "done", "failed", "skipped"}
       \/ \E f \in ArchiveFiles(y) : ftask[y][f].pc = "failed"
    /\ xtask' = [xtask EXCEPT ![y] = "ok"]
    /\ UNCHANGED <<raw, dvars, pvars, xdir, out, merged, xphase, xruns, xargs, ftask, ctask, prev>>

\* the with block of process_extraction ends; it returns True
ProcessExtractionReturn(y) ==
    /\ xtask[y] = "filtering"
    /\ \A f \in ArchiveFiles(y) : ftask[y][f].pc \in {"none", "done", "failed", "skipped"}
    /\ xtask' = [xtask EXCEPT ![y] = "ok"]
    /\ UNCHANGED <<raw, dvars, pvars, xdir, out, merged, xphase, xruns, xargs, ftask, ctask, prev>>

\* (mutant) a shoot_parallel_extraction that does not wait for its pool
ShootExtractionReturnsAtOnce ==
    /\ xphase = "extracting"
    /\ IF xargs.clean /\ ShootResult(xtask)
       THEN /\ xphase' = "cleaning"
            /\ ctask' = [y \in LinkedYears |->
                           IF y \in Range(xargs.rars) THEN "queued" ELSE "none"]
       ELSE /\ xphase' = IF xargs.merge_all THEN "merging" ELSE "done"
            /\ ctask' = ctask
    /\ UNCHANGED <<raw, dvars, pvars, xdir, out, merged, xruns, xargs, xtask, ftask, prev>>

\* shoot_parallel_extraction returns; run_extraction goes on to the cleanup,
\* the merge or its end
ShootExtractionReturn ==
    /\ xphase = "extracting"
    /\ \A y \in LinkedYears : xtask[y] \in {"none", "ok", "failed"}
    /\ IF xargs.clean /\ ShootResult(xtask)
       THEN /\ xphase' = "cleaning"
            /\ ctask' = [y \in LinkedYears |->
                           IF y \in Range(xargs.rars) THEN "queued" ELSE "none"]
       ELSE /\ xphase' = IF xargs.merge_all THEN "merging" ELSE "done"
            /\ ctask' = ctask
    /\ UNCHANGED <<raw, dvars, pvars, xdir, out, merged, xruns, xargs, xtask, ftask, prev>>

\* cleanup_year(year, rar_path): unlink the archive, rmtree the directory
CleanupYear(y) ==
    /\ xphase = "cleaning"
    /\ ctask[y] = "queued"
    /\ raw' = [raw EXCEPT ![ArchiveName(y)] = "absent"]
    /\ xdir' = [xdir EXCEPT ![y] = [exists |-> FALSE, files |-> {}]]
    /\ ctask' = [ctask EXCEPT ![y] = "done"]
    /\ UNCHANGED <<dvars, pvars, out, merged, xphase, xruns, xargs, xtask, ftask, prev>>

\* shoot_parallel_cleaning returns
ShootCleaningReturn ==
    /\ xphase = "cleaning"
    /\ \A y \in LinkedYears : ctask[y] \in {"none", "done"}
    /\ xphase' = IF xargs.merge_all THEN "merging" ELSE "done"
    /\ UNCHANGED <<raw, dvars, pvars, xdir, out, merged, xruns, xargs, xtask, ftask, ctask, prev>>

\* merge_csv_years(years)
MergeCsvYears ==
    /\ xphase = "merging"
    /\ LET file == IF merged.exists /\ merged.years = xargs.years
                   THEN [exists |-> TRUE, rows |-> merged.rows]
                   ELSE [exists |-> FALSE, rows |-> <<>>]
           r == merge_csv_years(xargs.years, SonDirs, file)
       IN  merged' = [exists |-> r.file.exists, years |-> xargs.years,
                      rows |-> r.file.rows, result |-> r.result]
    /\ xphase' = "done"
    /\ UNCHANGED <<raw, dvars, pvars, xdir, out, xruns, xargs, xtask, ftask, ctask, prev>>

XNext ==
    \/ \E call \in ExtractCalls : RunExtraction(call.years, call.clean, call.merge_all)
    \/ \E y \in LinkedYears : \E partial \in SUBSET ArchiveFiles(y) : StartExtraction(y, partial)
    \/ \E y \in LinkedYears : \E f \in ArchiveFiles(y) : FilterStart(y, f)
    \/ \E y \in LinkedYears : \E f \in ArchiveFiles(y), n \in 1..(ChunkSize + 1) : AppendFlush(y, f, n)
    \/ \E y \in LinkedYears : ProcessExtractionReturn(y)
    \/ ShootExtractionReturn
    \/ \E y \in LinkedYears : CleanupYear(y)
    \/ ShootCleaningReturn
    \/ MergeCsvYears

(***************************************************************************)
(* Single calls of the functions that only read their arguments.           *)
(***************************************************************************)
\* no call is under study
NoCall ==
    /\ args = [fn |-> "none"]
    /\ ret = [returned |-> FALSE]

\* "QQP_<year>" followed by a suffix
Named(y, suffix) == <<"Q", "Q", "P", "_">> \o YearStr(y) \o suffix

\* names a directory handed to check_existing may hold: two archives, a
\* delimited text file, an archive that spans two years, an extracted tree
CheckNames ==
    { Named(2019, <<".", "r", "a", "r">>),
      Named(2020, <<".", "Z", "I", "P">>),
      Named(2021, <<".", "c", "s", "v">>),
      Named(2021, YearStr(2022) \o <<".", "z", "i", "p">>),
      Named(2022, <<>>) }

CheckYears == { <<>>, <<2019>>, <<2022, 2021>>, <<2018, 2020>>, <<2019, 2020, 2021, 2022>> }

\* the calls check_existing(years, path) explored
CheckExistingCalls ==
    { [fn |-> "check_existing", years |-> ys, dir |-> d] :
        ys \in CheckYears, d \in [CheckNames -> {"absent", "invalid", "valid"}] }

\* check_existing(years, path) runs and returns; it writes nothing
CallCheckExisting ==
    /\ args.fn = "check_existing"
    /\ ~ret.returned
    /\ ret' = [returned |-> TRUE, value |-> check_existing(args.years, args.dir)]
    /\ UNCHANGED <<args, raw, dvars, xvars>>

\* the chunks handed to the mask: up to MaxChunkRows estado fields
EstadoValues == {Sonora, sonora, SONORA, Jalisco, <<>>}
ChunkFilterCalls ==
    { [fn |-> "chunk_filter", chunk |-> c] :
        c \in UNION {[1..n -> EstadoValues] : n \in 0..MaxChunkRows} }

\* one turn of the loop of _csv_chunk_filter_and_append: mask, chunk.loc[mask]
CallChunkFilter ==
    /\ args.fn = "chunk_filter"
    /\ ~ret.returned
    /\ ret' = [returned |-> TRUE,
               value |-> LocMask([i \in 1..Len(args.chunk) |-> i], args.chunk)]
    /\ UNCHANGED <<args, raw, dvars, xvars>>

\* a per-year filtered file: the header line of f, then n rows
CsvOf(f, n) ==
    <<[src |-> f, chunk |-> 1, row |-> 0]>> \o [r \in 1..n |-> [src |-> f, chunk |-> 1, row |-> r]]

\* what a QQP_<year>_son may be when merge_csv_years runs: missing; without
\* a file; with two files; with one file; with a file touched and never
\* written; with a file to which two filter calls appended
SonDirStates ==
    { [dir |-> FALSE, files |-> <<>>],
      [dir |-> TRUE, files |-> <<>>],
      [dir |-> TRUE, files |-> <<CsvOf(FileA, 2), CsvOf(FileB, 3)>>],
      [dir |-> TRUE, files |-> <<CsvOf(FileC, 1)>>],
      [dir |-> TRUE, files |-> << <<>> >>],
      [dir |-> TRUE, files |-> <<CsvOf(FileD, 1) \o CsvOf(FileE, 1)>>] }

MergeYears == { <<2019, 2020>>, <<2020, 2019>>, <<2021>>, <<2019, 2020, 2021>> }

\* qqp_<years>_sonora.csv before the call: absent, or left by an earlier merge
MergedFileStates ==
    { [exists |-> FALSE, rows |-> <<>>],
      [exists |-> TRUE, rows |-> Tail(CsvOf(FileE, 1))] }

\* the calls merge_csv_years(years) explored
MergeCalls ==
    { [fn |-> "merge_csv_years", years |-> ys, dirs |-> d, file |-> f] :
        ys \in MergeYears, d \in [2019..2021 -> SonDirStates], f \in MergedFileStates }

\* merge_csv_years(years) runs and returns
CallMergeCsvYears ==
    /\ args.fn = "merge_csv_years"
    /\ ~ret.returned
    /\ ret' = [returned |-> TRUE,
               value |-> merge_csv_years(args.years, args.dirs, args.file)]
    /\ UNCHANGED <<args, raw, dvars, xvars>>

CallsInit ==
    /\ raw = [n \in RawNames |-> "absent"]
    /\ DInit
    /\ XInit
    /\ args \in CheckExistingCalls \cup ChunkFilterCalls \cup MergeCalls
    /\ ret = [returned |-> FALSE]

CallsNext ==
    \/ CallCheckExisting
    \/ CallChunkFilter
    \/ CallMergeCsvYears

SpecCalls == CallsInit /\ [][CallsNext]_vars

(***************************************************************************)
(* Specifications.                                                         *)
(***************************************************************************)
\* the downloader, from an empty RAW
InitDownload ==
    /\ raw = [n \in RawNames |-> "absent"]
    /\ DInit
    /\ XInit
    /\ NoCall

SpecDownload == InitDownload /\ [][DNext]_vars

\* the archives the downloader has left in RAW before an extraction: sound
\* ones for 2019 and 2021, a sound one or one that does not verify for 2020,
\* none for 2022
ExtractStartRaw ==
    { r \in [RawNames -> {"absent", "invalid", "valid"}] :
        /\ r[ArchiveName(2019)] = "valid"
        /\ r[ArchiveName(2020)] # "absent"
        /\ r[ArchiveName(2021)] = "valid"
        /\ r[ArchiveName(2022)] = "absent" }

InitExtract ==
    /\ raw \in ExtractStartRaw
    /\ DInit
    /\ XInit
    /\ NoCall

SpecExtract == InitExtract /\ [][XNext]_vars
(***************************************************************************)
(* Claims about download.py, checked under SpecDownload.                   *)
(***************************************************************************)

\* C1: download_file stops after at most MaxRetries attempts and ends a run of
\* corrupt fetches with an integrity failure, never by exhausting the stack.
C1_RetryBounded ==
    \A i \in 1..Len(tasks) :
        /\ tasks[i].depth <= MaxRetries
        /\ tasks[i].exc # "RecursionError"

\* C3: while no download of a year is in progress, an archive file of that
\* year on disk passes integrity verification.
C3_ArchiveOnDiskIsValid ==
    \A y \in LinkedYears :
        (\A i \in InProgress : YearOfUrl(tasks[i].url) # y)
            => raw[ArchiveName(y)] \in {"absent", "valid"}

\* C8: when download_files returns, every submitted URL has been attempted
\* and the failures of the batch have been handed to the caller.
C8_FailuresCollected ==
    dphase = "done" =>
        /\ \A i \in 1..Len(tasks) : tasks[i].pc \in {"done", "failed"}
        /\ (\E i \in 1..Len(tasks) : tasks[i].pc = "failed") => dfReturn # "None"

\* C9: at every moment at most 3 download_file calls are in progress.
C9_AtMostThreeTransfers == Cardinality(InProgress) <= 3

\* C9 witness: three transfers run while a fourth URL waits in the queue.
C9_Witness ==
    /\ Cardinality(InProgress) = 3
    /\ \E i \in 1..Len(tasks) : tasks[i].pc = "queued"

\* C10: run_downloader submits no download for a year that check_existing
\* reported as present; a call waiting in the queue has no archive on disk.
C10_PresentNotDownloaded ==
    /\ \A i \in 1..Len(tasks), k \in 1..Len(existing) :
           YearOfUrl(tasks[i].url) # existing[k]
    /\ \A i \in 1..Len(tasks) :
           tasks[i].pc = "queued" => raw[ResolveFilename(tasks[i].url)] = "absent"

\* C10 witness: a second run whose years are all present downloads nothing.
C10_Witness ==
    /\ druns = 2
    /\ dphase = "done"
    /\ Len(existing) > 0
    /\ tasks = <<>>
\* C17: a download_file call that fetched an archive which passes verification
\* returns the archive path, whether or not the metadata record could be
\* written, and the archive stays on disk.
C17_MetadataBestEffort ==
    \A i \in 1..Len(tasks) :
        /\ (tasks[i].pc \in {"done", "failed"} /\ is_valid_rar(ResolveFilename(tasks[i].url)))
              => tasks[i].pc = "done"
        /\ tasks[i].exc = "OSError" => tasks[i].pc = "done"
\* C19: run_downloader called with years=None goes on to download every year
\* the link resolver offers and RAW does not hold; it does not end in an
\* exception before any download is submitted.
C19_NoYearsMeansAll == dphase # "crashed"
(***************************************************************************)
(* Claims about extract.py, checked under SpecExtract.                     *)
(***************************************************************************)

\* C2: a second run_extraction over a year the previous run processed, its
\* archive unchanged, leaves QQP_<year>_SON.csv with the row count it had.
C2_RerunKeepsRowCount ==
    \A y \in LinkedYears :
        (xphase = "done" /\ xruns >= 2 /\ xtask[y] = "ok" /\ prev[y].ok)
            => Len(DataRows(out[y].lines)) = prev[y].rows

\* C4: a year whose non-empty directory process_extraction takes as extracted
\* has its whole archive unpacked.
C4_NonEmptyDirIsComplete ==
    \A y \in LinkedYears :
        (xtask[y] \in {"filtering", "ok"} /\ xdir[y].files # {})
            => xdir[y].files = ArchiveFiles(y)

\* C5: once the extraction pool of a run has ended, every year with a sound
\* archive was processed into its output file and every year with a corrupt
\* archive counts as one failure of the run.
C5_FailureIsolation ==
    xphase \in {"cleaning", "merging", "done"} =>
        \A y \in Range(xargs.rars) :
            /\ raw[ArchiveName(y)] = "valid" => (xtask[y] = "ok" /\ out[y].file)
            /\ raw[ArchiveName(y)] = "invalid" => xtask[y] = "failed"

\* C6: while a filter call is in the middle of appending a chunk, the last
\* line of the output file is a line of that chunk (no other writer got in
\* between), and a finished filter call has every kept row in the file.
C6_ChunkAppendAtomic ==
    \A y \in LinkedYears : \A f \in ArchiveFiles(y) :
        /\ (ftask[y][f].pc = "writing"
              /\ Len(ftask[y][f].pending) < Len(ChunkOutput(f, ftask[y][f].chunk)))
            => /\ out[y].lines # <<>>
               /\ out[y].lines[Len(out[y].lines)].src = f
               /\ out[y].lines[Len(out[y].lines)].chunk = ftask[y][f].chunk
        /\ ftask[y][f].pc = "done"
            => \A k \in 1..NChunks(f) : \A r \in Range(Filtered(f, k)) :
                   [src |-> f, chunk |-> k, row |-> r] \in Range(out[y].lines)

\* C7: no archive is deleted of a year whose extraction or filtering failed
\* in the current run.
C7_CleanupSparesFailedYears ==
    \A y \in LinkedYears :
        (xtask[y] = "failed" \/ \E f \in ArchiveFiles(y) : ftask[y][f].pc = "failed")
            => raw[ArchiveName(y)] # "absent"
(***************************************************************************)
(* Claims about single calls, checked under SpecCalls.                     *)
(***************************************************************************)

\* C11: check_existing(years, dir) returns (missing, present) that partition
\* the input years; a year is in present exactly when some archive file name
\* in dir contains the year's string form; the call changes nothing in dir.
C11_CheckExistingPartitions ==
    /\ [](args.fn = "check_existing" /\ ret.returned =>
            LET IsPartOf(s, name) ==
                    \E i \in 1..Len(name), j \in 1..Len(name) : SubSeq(name, i, j) = s
                archives == {n \in DOMAIN args.dir :
                               /\ args.dir[n] # "absent"
                               /\ Len(n) >= 4
                               /\ SubSeq(n, Len(n) - 3, Len(n)) \in ArchiveSuffixes}
            IN  /\ Range(ret.value.missing) \cup Range(ret.value.existing) = Range(args.years)
                /\ Range(ret.value.missing) \cap Range(ret.value.existing) = {}
                /\ \A y \in Range(args.years) :
                       y \in Range(ret.value.existing)
                           <=> \E n \in archives : IsPartOf(YearStr(y), n))
    /\ [][args.fn = "check_existing" => args'.dir = args.dir]_vars

\* C11 witness: a call that found one year present and one missing, the
\* missing one named by a file that is no archive.
C11_Witness ==
    /\ args.fn = "check_existing"
    /\ ret.returned
    /\ ret.value.existing # <<>>
    /\ \E y \in Range(ret.value.missing) : \E n \in DOMAIN args.dir :
           args.dir[n] # "absent" /\ Contains(YearStr(y), n)
\* C13: the region filter keeps a row of a chunk exactly when its estado,
\* letter case set aside, is SONORA: "Sonora" and "sonora" are kept, an empty
\* or missing estado and "Jalisco" are dropped, and the kept rows stay in
\* their relative order.
C13_RegionFilter ==
    (args.fn = "chunk_filter" /\ ret.returned) =>
        LET chunk == args.chunk
            kept == ret.value
        IN  /\ \A i \in 1..Len(chunk) :
                   (\E j \in 1..Len(kept) : kept[j] = i) <=> Lower(chunk[i]) = sonora
            /\ \A j \in 1..Len(kept) : kept[j] \in 1..Len(chunk)
            /\ \A j \in 1..(Len(kept) - 1) : kept[j] < kept[j + 1]
            /\ \A j \in 1..Len(kept) : chunk[kept[j]] \notin {Jalisco, <<>>}
            /\ \A i \in 1..Len(chunk) :
                   chunk[i] \in {Sonora, sonora} => \E j \in 1..Len(kept) : kept[j] = i

\* C13 witness: of the rows "Sonora", "", "Jalisco", "sonora" the first and the
\* last are kept.
C13_Witness ==
    /\ args.fn = "chunk_filter"
    /\ ret.returned
    /\ args.chunk = <<Sonora, <<>>, Jalisco, sonora>>
    /\ ret.value = <<1, 4>>
\* C15: merge_csv_years(years) writes one combined dataset whose rows are the
\* rows of every per-year filtered file, in the order of the years given and
\* in file discovery order within a year; its row count is the sum of the
\* row counts of the files.
C15_MergeOrder ==
    (args.fn = "merge_csv_years" /\ ret.returned /\ ret.value.result = "output_file") =>
        LET years == args.years
            files(p) == IF args.dirs[years[p]].dir THEN args.dirs[years[p]].files ELSE <<>>
            \* <<p, q, k>>: row k of the q-th file of the p-th year
            slots == UNION { UNION { { <<p, q, k>> : k \in 1..(Len(files(p)[q]) - 1) } :
                                       q \in 1..Len(files(p)) } :
                             p \in 1..Len(years) }
            before(s) == { t \in slots :
                             \/ t[1] < s[1]
                             \/ t[1] = s[1] /\ t[2] < s[2]
                             \/ t[1] = s[1] /\ t[2] = s[2] /\ t[3] < s[3] }
            rows == ret.value.file.rows
        IN  /\ ret.value.file.exists
            /\ Len(rows) = Cardinality(slots)
            /\ \A s \in slots :
                   rows[Cardinality(before(s)) + 1] = files(s[1])[s[2]][s[3] + 1]

\* C15 witness: years [2019, 2020] with a.csv (2 rows) and b.txt (3 rows) for
\* 2019 and c.CSV (1 row) for 2020 give 6 rows in the order a, b, c.
C15_Witness ==
    /\ args.fn = "merge_csv_years"
    /\ ret.returned
    /\ args.years = <<2019, 2020>>
    /\ args.dirs[2019].files = <<CsvOf(FileA, 2), CsvOf(FileB, 3)>>
    /\ args.dirs[2020].files = <<CsvOf(FileC, 1)>>
    /\ Len(ret.value.file.rows) = 6
    /\ [i \in 1..6 |-> ret.value.file.rows[i].src]
           = <<FileA, FileA, FileB, FileB, FileB, FileC>>

\* C16: merge_csv_years skips a year whose QQP_<year>_son is missing and goes
\* on with the other years, whose rows all reach the merged file; when no
\* file is found in any of the years it returns None, not the merged file,
\* and writes no dataset.
C16_MergeSkipsMissing ==
    (args.fn = "merge_csv_years" /\ ret.returned) =>
        LET found == { y \in Range(args.years) :
                         args.dirs[y].dir /\ args.dirs[y].files # <<>> }
            readable == { y \in found :
                            \E q \in 1..Len(args.dirs[y].files) : args.dirs[y].files[q] # <<>> }
        IN  /\ found = {} =>
                  /\ ret.value.result = "None"
                  /\ ret.value.file.rows = args.file.rows
            /\ readable # {} =>
                  /\ ret.value.result = "output_file"
                  /\ \A y \in readable : \A q \in 1..Len(args.dirs[y].files) :
                         \A k \in 2..Len(args.dirs[y].files[q]) :
                            args.dirs[y].files[q][k] \in Range(ret.value.file.rows)

\* C16 witness: 2019 has no directory, 2020 has a file; the merge returns the
\* merged file with the row of 2020.
C16_Witness ==
    /\ args.fn = "merge_csv_years"
    /\ ret.returned
    /\ args.years = <<2019, 2020>>
    /\ ~args.dirs[2019].dir
    /\ args.dirs[2020].files = <<CsvOf(FileC, 1)>>
    /\ ret.value.result = "output_file"
    /\ ret.value.file.rows = Tail(CsvOf(FileC, 1))
(***************************************************************************)
(* Further claims about extract.py, checked under SpecExtract.             *)
(***************************************************************************)

\* C12: process_extraction for a year whose extracted directory is non-empty
\* does not unpack the archive again: the directory keeps its content, the
\* call goes on to the filtering and from there only to its return of True.
C12_NonEmptyDirNotUnpacked ==
    [][\A y \in LinkedYears :
          /\ (xtask[y] = "queued" /\ xtask'[y] # "queued" /\ xdir[y].files # {})
                => (xdir'[y].files = xdir[y].files /\ xtask'[y] = "filtering")
          /\ (xtask[y] = "filtering" /\ xdir[y].files # {})
                => (xdir'[y].files = xdir[y].files /\ xtask'[y] \in {"filtering", "ok"})]_vars

\* C12 witness: a call went on to the filtering although its archive cannot be
\* unpacked, which only the skip of a non-empty directory allows.
C12_Witness ==
    /\ xtask[2020] = "ok"
    /\ raw[ArchiveName(2020)] = "invalid"
    /\ xdir[2020].files # {}

\* C14: whatever chunks the filter calls have appended, QQP_<year>_SON.csv
\* holds the header line exactly once (as its first line); every other line
\* is a data row.
C14_HeaderOnce ==
    \A y \in LinkedYears :
        out[y].lines # <<>> =>
            /\ out[y].lines[1].row = 0
            /\ \A i \in 2..Len(out[y].lines) : out[y].lines[i].row > 0

\* C18: a failure in the filter call of one file stays with that file: the
\* process_extraction of the year is not failed by it, and once it has
\* returned, every other enumerated file that filter_sonora_and_save supports
\* and pandas can parse has been filtered, its kept rows in the output file.
C18_FilterFailureIsolated ==
    \A y \in LinkedYears : \A f \in ArchiveFiles(y) :
        ftask[y][f].pc = "failed" =>
            /\ xtask[y] \in {"filtering", "ok"}
            /\ xtask[y] = "ok" =>
                  \A g \in ArchiveFiles(y) \ {f} :
                      (/\ ftask[y][g].pc # "none"
                       /\ SupportedSuffix(g)
                       /\ \A k \in 1..NChunks(g) : ~Malformed(g, k))
                        => /\ ftask[y][g].pc = "done"
                           /\ \A k \in 1..NChunks(g) : \A r \in Range(Filtered(g, k)) :
                                  [src |-> g, chunk |-> k, row |-> r] \in Range(out[y].lines)

\* C18 witness: d.txt of 2020 failed, e.csv of 2020 was filtered to its end,
\* its SONORA row is in the output file, and process_extraction returned.
C18_Witness ==
    /\ xtask[2020] = "ok"
    /\ ftask[2020][FileD].pc = "failed"
    /\ ftask[2020][FileE].pc = "done"
    /\ [src |-> FileE, chunk |-> 2, row |-> 3] \in Range(out[2020].lines)

\* C20: in a run_extraction the stages follow one another: a cleanup_year
\* call runs only when every process_extraction call of the run and every
\* filter call of theirs has ended, and merge_csv_years runs only when, in
\* addition, every cleanup_year call has ended.
C20_StagesOrdered ==
    [][LET ExtractionEnded ==
               \A y \in LinkedYears :
                   /\ xtask[y] \in {"none", "ok", "failed"}
                   /\ \A f \in ArchiveFiles(y) :
                          ftask[y][f].pc \in {"none", "done", "failed", "skipped"}
           CleaningEnded == \A y \in LinkedYears : ctask[y] \in {"none", "done"}
       IN  /\ (\E y \in LinkedYears : ctask[y] = "queued" /\ ctask'[y] = "done")
                 => ExtractionEnded
           /\ (xphase = "merging" \/ merged' # merged)
                 => /\ ExtractionEnded
                    /\ CleaningEnded
                    /\ xargs.clean => \A y \in Range(xargs.rars) : ctask[y] = "done"]_vars

\* C20 witness: a run with clean and merge_all has cleaned its three years
\* and then written the merged file.
C20_Witness ==
    /\ xargs.clean /\ xargs.merge_all
    /\ xphase = "done"
    /\ \A y \in Range(xargs.rars) : ctask[y] = "done"
    /\ Len(xargs.rars) = 3
    /\ merged.years = xargs.years
    /\ merged.result = "output_file"

\* C21: every file that find_extracted_files enumerates for a year, whatever
\* the letter case of its suffix, is filtered by filter_sonora_and_save; no
\* enumerated file is skipped as an unsupported type, and when the
\* process_extraction of the year has returned, the rows the filter keeps of
\* every enumerated file that pandas can parse are in the output file.
C21_EnumeratedFilesFiltered ==
    \A y \in LinkedYears : \A f \in ArchiveFiles(y) :
        /\ ftask[y][f].pc # "skipped"
        /\ (xtask[y] = "ok" /\ ftask[y][f].pc # "none"
               /\ \A k \in 1..NChunks(f) : ~Malformed(f, k))
              => \A k \in 1..NChunks(f) : \A r \in Range(Filtered(f, k)) :
                     [src |-> f, chunk |-> k, row |-> r] \in Range(out[y].lines)
====
